---- MODULE Spec2Model ----
(***************************************************************************)
(* Audio capture pipeline of pngtubers: audio::run (device and stream      *)
(* setup, the input stream callback with its spectrum analysis), the       *)
(* bounded channel between the callback and the consumer task spawned in   *)
(* main, the shared AppState history, and the terminal loop that snapshots *)
(* it.                                                                     *)
(***************************************************************************)
EXTENDS Integers, Sequences, FiniteSets, TLC

VARIABLES
    main_pc,              \* position of the main thread (main, audio::run, run_tui)
    desired_device_name,  \* args.device, handed to audio::run
    device,               \* the device audio::run selected (NoDevice if none)
    run_result,           \* what audio::run gave its caller
    stream,               \* the cpal stream handle local to audio::run
    cb_pc,                \* position of the input stream callback
    data,                 \* the block the current callback invocation was given
    delivered,            \* history variable: every block handed to the callback, in order
    chan,                 \* blocks queued in the mpsc channel (tx -> rx)
    cons_pc,              \* position of the consumer task
    samples,              \* the block the consumer task holds
    lock,                 \* owner of the Mutex around AppState
    decibels,             \* AppState.decibels
    dbs,                  \* the Vec<u64> built by ui
    sample_rate,          \* config.sample_rate().0 of the host's f32 input
    buffer,               \* the Vec<Complex<f32>> the callback captures
    norms,                \* callback local: `results`, the norm of every buffer entry
    results,              \* callback local: `results` after remove_mirroring
    band_indices,         \* callback local: low_index and high_index of each band so far
    energy_ranges         \* callback local: the band means collected so far

\* the locals of one callback invocation
locals == << norms, results, band_indices, energy_ranges >>

vars == << main_pc, desired_device_name, device, run_result, stream, cb_pc, data,
           delivered, chan, cons_pc, samples, lock, decibels, dbs, sample_rate,
           buffer, locals >>

----------------------------------------------------------------------------
(* Bounds of the model *)

\* blocks the hardware delivers in the specification Spec
MaxBlocks == 3
\* blocks the hardware delivers in the specification SpecLoad
MaxLoadBlocks == 301
\* blocks the hardware delivers in the specification SpecFull
MaxFullBlocks == 102

(* Program constants *)

\* channel::<Vec<f32>>(100)
ChannelCapacity == 100
\* .take(300) in ui
SnapshotWindow == 300

----------------------------------------------------------------------------
(* f32 values.  A sample is a fixed-point number of thousandths (500 is    *)
(* 0.5).  A decibel value is a pair: <<"fin", c>> is c hundredths of a dB, *)
(* the others are the IEEE values that are not finite.                     *)

Fin(c) == << "fin", c >>
NaN == << "nan", 0 >>
NegInf == << "ninf", 0 >>
PosInf == << "pinf", 0 >>

IsNan(x) == x[1] = "nan"
IsFinite(x) == x[1] = "fin"

\* 20 * log10(v) in hundredths of a dB, for the positive samples of the model
DbOfPositive == (1 :> -6000) @@ (10 :> -4000) @@ (500 :> -602) @@ (1000 :> 0)

\* 20.0 * sample.log10(): log10 of a negative number is NaN, log10(0.0) is -inf
TwentyLog10(sample) ==
    IF sample < 0 THEN NaN
    ELSE IF sample = 0 THEN NegInf
    ELSE Fin(DbOfPositive[sample])

\* the closure mapped over the samples: only NaN is replaced
SampleDb(sample) ==
    LET value == TwentyLog10(sample)
    IN IF IsNan(value) THEN Fin(-10000) ELSE value

\* f32::total_cmp(x, y) /= Greater, for values with a positive sign bit on NaN
TotalLeq(x, y) ==
    CASE x[1] = "ninf" -> TRUE
      [] x[1] = "fin"  -> \/ y[1] \in {"pinf", "nan"}
                          \/ (y[1] = "fin" /\ x[2] <= y[2])
      [] x[1] = "pinf" -> y[1] \in {"pinf", "nan"}
      [] x[1] = "nan"  -> y[1] = "nan"

\* Iterator::max_by: the last of the greatest elements, None for no element
RECURSIVE MaxBy(_, _)
MaxBy(acc, rest) ==
    IF rest = << >> THEN acc
    ELSE MaxBy(IF TotalLeq(acc, Head(rest)) THEN Head(rest) ELSE acc, Tail(rest))

\* max_volume.unwrap_or(0.0) of the consumer task
MaxVolume(block) ==
    IF block = << >> THEN Fin(0)
    ELSE LET values == [i \in 1..Len(block) |-> SampleDb(block[i])]
         IN MaxBy(Head(values), Tail(values))

\* db.abs() as u64: the cast truncates, saturates and sends NaN to 0
AbsAsU64(db) ==
    CASE db[1] = "fin" -> << "u64", (IF db[2] < 0 THEN -db[2] ELSE db[2]) \div 100 >>
      [] db[1] = "nan" -> << "u64", 0 >>
      [] OTHER         -> << "u64max", 0 >>

\* s.decibels.iter().rev().take(300).map(..).collect()
Snapshot(history) ==
    LET n == IF Len(history) < SnapshotWindow THEN Len(history) ELSE SnapshotWindow
    IN [i \in 1..n |-> AbsAsU64(history[Len(history) + 1 - i])]

----------------------------------------------------------------------------
(* The host and its input devices, as cpal reports them *)

Dev(n, nameOk, cfg, buildOk, playOk) ==
    [name |-> n, name_ok |-> nameOk, config |-> cfg, build_ok |-> buildOk,
     play_ok |-> playOk]

NoDevice == Dev("", FALSE, "none", FALSE, FALSE)

\* host.input_devices(), in enumeration order
InputDevices ==
    << Dev("unnamed", FALSE, "F32", TRUE, TRUE),
       Dev("unnamed16", FALSE, "I16", TRUE, TRUE),
       Dev("mic", TRUE, "F32", TRUE, TRUE),
       Dev("i16", TRUE, "I16", TRUE, TRUE),
       Dev("noconfig", TRUE, "none", TRUE, TRUE),
       Dev("nobuild", TRUE, "F32", FALSE, TRUE),
       Dev("noplay", TRUE, "F32", TRUE, FALSE) >>

DeviceSet == {InputDevices[i] : i \in 1..Len(InputDevices)}

\* the names a caller may ask for: the default indicator, each device, an absent one
DesiredNames == {"default", "mic", "i16", "noconfig", "nobuild", "noplay", "ghost"}

\* .find(|x| x.name().map(|y| y == desired_device_name).unwrap_or(false))
RECURSIVE Find(_, _)
Find(devices, name) ==
    IF devices = << >> THEN NoDevice
    ELSE IF Head(devices).name_ok /\ Head(devices).name = name THEN Head(devices)
    ELSE Find(Tail(devices), name)

\* the device selection of audio::run, before .expect
SelectDevice(name, defaultDevice) ==
    IF name = "default" THEN defaultDevice ELSE Find(InputDevices, name)

Outcome(res, dev, str) == [result |-> res, device |-> dev, stream |-> str]

\* mutant of RunOutcome: the sample format is not matched, a stream is built and
\* played for every format
RunOutcomeAnyFormat(name, enumOk, defaultDevice) ==
    LET dev == SelectDevice(name, defaultDevice)
    IN IF name /= "default" /\ ~enumOk THEN Outcome("CpalDevicesError", NoDevice, "none")
       ELSE IF dev = NoDevice THEN Outcome("panic", NoDevice, "none")
       ELSE IF ~dev.name_ok THEN Outcome("CpalDeviceNameError", dev, "none")
       ELSE IF dev.config = "none" THEN Outcome("panic", dev, "none")
       ELSE IF ~dev.build_ok THEN Outcome("CpalBuildError", dev, "none")
       ELSE IF ~dev.play_ok THEN Outcome("CpalPlayError", dev, "stopped")
       ELSE Outcome("Ok", dev, "playing")

\* audio::run up to and including stream.play()
RunOutcome(name, enumOk, defaultDevice) ==
    LET dev == SelectDevice(name, defaultDevice)
    IN IF name /= "default" /\ ~enumOk THEN Outcome("CpalDevicesError", NoDevice, "none")
       ELSE IF dev = NoDevice THEN Outcome("panic", NoDevice, "none")
       ELSE IF ~dev.name_ok THEN Outcome("CpalDeviceNameError", dev, "none")
       ELSE IF dev.config = "none" THEN Outcome("panic", dev, "none")
       ELSE IF dev.config /= "F32" THEN Outcome("UnsupportedSampleFormat", dev, "none")
       ELSE IF ~dev.build_ok THEN Outcome("CpalBuildError", dev, "none")
       ELSE IF ~dev.play_ok THEN Outcome("CpalPlayError", dev, "stopped")
       ELSE Outcome("Ok", dev, "playing")

----------------------------------------------------------------------------
(* The spectrum analysis of the callback.  Magnitudes are fixed-point        *)
(* numbers of thousandths, as samples are.                                   *)

\* planner.plan_fft_forward(1024), vec![Complex { re: 0.0, im: 0.0 }; 1024]
FftLen == 1024

\* Complex::new(re, im)
Complex(re, im) == << "c", re, im >>
\* an entry written by the transform whose value is not computed here
Transformed == << "fft", 0, 0 >>

CAdd(x, y) == Complex(x[2] + y[2], x[3] + y[3])
CSub(x, y) == Complex(x[2] - y[2], x[3] - y[3])
CScale(k, x) == Complex(k * x[2], k * x[3])

\* The Vec<Complex<f32>> of FftLen entries: entry i (counted from 0) is head[i + 1]
\* for i < Len(head) and `rest` from there on.
Buffer(head, rest) == [head |-> head, rest |-> rest]

\* buffer[i]
BufferAt(b, i) == IF i < Len(b.head) THEN b.head[i + 1] ELSE b.rest

\* the same FftLen entries written with the shortest head
Trim(b) ==
    LET rest == IF Len(b.head) = FftLen THEN b.head[FftLen] ELSE b.rest
        differ == {i \in 1..Len(b.head) : b.head[i] /= rest}
        last == IF differ = {} THEN 0
                ELSE CHOOSE i \in differ : \A j \in differ : j <= i
    IN Buffer(SubSeq(b.head, 1, last), rest)

\* buffer[i] = ... is out of bounds at i = FftLen
FillPanics(block) == Len(block) > FftLen

\* for (i, v) in data.iter().enumerate() { buffer[i] = Complex::new(*v, 0.0f32); }
\* the entries from data.len() on keep what they held; a block longer than the
\* buffer has its first FftLen samples written before the index panics
Fill(b, block) ==
    LET n == IF Len(block) > FftLen THEN FftLen ELSE Len(block)
        m == IF Len(b.head) > n THEN Len(b.head) ELSE n
    IN Trim(Buffer([i \in 1..m |-> IF i <= n THEN Complex(block[i], 0)
                                             ELSE b.head[i]],
                   b.rest))

\* fft.process(&mut buffer): the forward transform of length FftLen, in place and
\* not normalised.  For entries x[0] = h and x[i] = r elsewhere the transform is
\* X[0] = (h - r) + FftLen * r and X[k] = h - r elsewhere; the transform of any
\* other buffer is written but not computed here.
FftProcess(b) ==
    LET t == Trim(b)
    IN IF t.rest = Transformed \/ Len(t.head) > 1
       THEN Buffer(<< >>, Transformed)
       ELSE LET r == t.rest
                h == IF t.head = << >> THEN r ELSE t.head[1]
                d == CSub(h, r)
            IN Trim(Buffer(<< CAdd(d, CScale(FftLen, r)) >>, d))

\* the magnitudes of a transform of a real block: entry k equals entry n - k
Mirrored(n) == [i \in 1..n |-> 10 * (1 + (IF i - 1 <= n - (i - 1) THEN i - 1 ELSE n - (i - 1)))]
\* magnitudes that differ at every index
Ramp(n) == [i \in 1..n |-> 3 * i]
\* the magnitudes of the transform of the block << a >> after silence
Flat(n, a) == [i \in 1..n |-> a]

\* mutant of remove_mirroring: one element short, the Nyquist bin is lost
remove_mirroring_half(d) == SubSeq(d, 1, Len(d) \div 2)

\* let len = data.len() / 2 + 1; data[..len].to_vec()
remove_mirroring(d) == SubSeq(d, 1, Len(d) \div 2 + 1)

\* data[..len] is out of range for the empty slice
RemoveMirroringPanics(d) == Len(d) \div 2 + 1 > Len(d)

\* BASS, LOW_MID, MID, HIGH_MID, TREBLE, in the order the callback maps them
FreqRanges ==
    << [low |-> 20, high |-> 140],
       [low |-> 140, high |-> 400],
       [low |-> 400, high |-> 2600],
       [low |-> 2600, high |-> 5200],
       [low |-> 5200, high |-> 14000] >>

\* let nyquist = sample_rate / 2, on u32
Nyquist(rate) == rate \div 2

\* mutant of BinIndex: the quotient upside down
BinIndexInverted(freq, nyquist, len) == (2 * nyquist * len + freq) \div (2 * freq)

\* (freq as f32 / nyquist as f32 * results.len() as f32).round() as usize, for
\* nyquist > 0: the quotient rounded to the nearest integer, halves upwards.  For
\* the frequencies of FreqRanges, the lengths of the folded Norms and every rate of
\* SampleRates the f32 operations give this integer.
BinIndex(freq, nyquist, len) == (2 * freq * len + nyquist) \div (2 * nyquist)

\* low_index and high_index of a band
BandIndices(range, rate, len) ==
    [low_index |-> BinIndex(range.low, Nyquist(rate), len),
     high_index |-> BinIndex(range.high, Nyquist(rate), len)]

\* &results[low_index..=high_index] panics when high_index is not an index of
\* results or the range starts after high_index + 1
SlicePanics(res, ix) ==
    \/ ix.high_index >= Len(res)
    \/ ix.low_index > ix.high_index + 1

\* mutant of FreqSlice: the range without its upper end
FreqSliceExclusive(res, ix) == SubSeq(res, ix.low_index + 1, ix.high_index)

\* &results[low_index..=high_index]
FreqSlice(res, ix) == SubSeq(res, ix.low_index + 1, ix.high_index + 1)

\* .iter().sum::<f32>() over s[from..to], without the rounding of f32 addition
RECURSIVE SumOf(_, _, _)
SumOf(s, from, to) ==
    IF from > to THEN 0
    ELSE IF from = to THEN s[from]
    ELSE LET mid == (from + to) \div 2
         IN SumOf(s, from, mid) + SumOf(s, mid + 1, to)

\* total / (num_frequencies as f32), for total >= 0: the quotient to the nearest
\* thousandth; 0.0 / 0.0 is NaN and a positive total over 0.0 is +inf
DivF32(total, n) ==
    IF n = 0 THEN (IF total = 0 THEN NaN ELSE PosInf)
    ELSE Fin((2 * total + n) \div (2 * n))

\* the mean of one band
BandMean(res, ix) ==
    LET freq_slice == FreqSlice(res, ix)
        num_frequencies == Len(freq_slice)
        total == SumOf(freq_slice, 1, num_frequencies)
    IN DivF32(total, num_frequencies)

\* results.len() after remove_mirroring of the FftLen norms
FoldedLen == Len(remove_mirroring(Flat(FftLen, 0)))

\* the slice of some band panics
BandsPanic(rate, len) ==
    \E k \in 1..Len(FreqRanges) :
        LET ix == BandIndices(FreqRanges[k], rate, len)
        IN ix.high_index >= len \/ ix.low_index > ix.high_index + 1

\* the sample rates a host may report for its input
SampleRates ==
    {8000, 11025, 16000, 22050, 32000, 44056, 44100, 48000, 88200, 96000, 192000,
     384000}
\* the sample rates of the pipeline specifications
DeviceRates == {16000, 44100}

\* the Vec<f32> of norms the analysis is applied to
Norms == {Mirrored(FftLen), Ramp(FftLen), Flat(FftLen, 500), Ramp(2), Ramp(4), Mirrored(6)}

----------------------------------------------------------------------------
(* The sample blocks the hardware may hand to the callback *)

Blocks == { << 0, 0 >>, << 10, 500, 1 >>, << -500, 0 >>, << >> }
LoadBlocks == { << 0 >> }

\* the Sender lives in the callback closure, which lives as long as the stream
\* and goes with the closure when an invocation panics
SenderAlive ==
    \/ main_pc = "start"
    \/ /\ cb_pc /= "panicked"
       /\ \/ stream \in {"playing", "detached"}
          \/ cb_pc \in {"send", "analyse", "transform"}

\* the Receiver is owned by main until the task is spawned, then by the task
ReceiverClosed ==
    \/ cons_pc \in {"ended", "cancelled"}
    \/ (cons_pc = "unspawned" /\ main_pc \in {"done", "panicked"})

Init ==
    /\ main_pc = "start"
    /\ desired_device_name \in DesiredNames
    /\ device = NoDevice
    /\ run_result = "none"
    /\ stream = "none"
    /\ cb_pc = "idle"
    /\ data = << >>
    /\ delivered = << >>
    /\ chan = << >>
    /\ cons_pc = "unspawned"
    /\ samples = << >>
    /\ lock = "free"
    /\ decibels = << >>
    /\ dbs = << >>
    /\ sample_rate \in DeviceRates
    /\ buffer = Buffer(<< >>, Complex(0, 0))
    /\ norms = << >>
    /\ results = << >>
    /\ band_indices = << >>
    /\ energy_ranges = << >>

InitLoad ==
    /\ Init
    /\ desired_device_name = "mic"
    /\ sample_rate = 44100

\* a state of SpecLoad: the stream is playing, audio::run has not returned yet and
\* the channel is full of the blocks delivered since stream.play()
InitBacklog ==
    /\ main_pc = "run_return"
    /\ desired_device_name = "mic"
    /\ device = Find(InputDevices, "mic")
    /\ run_result = "none"
    /\ stream = "playing"
    /\ cb_pc = "idle"
    /\ data = << >>
    /\ delivered = [i \in 1..ChannelCapacity |-> << 0 >>]
    /\ chan = delivered
    /\ cons_pc = "unspawned"
    /\ samples = << >>
    /\ lock = "free"
    /\ decibels = << >>
    /\ dbs = << >>
    /\ sample_rate = 44100
    /\ buffer = Buffer(<< >>, Complex(0, 0))
    /\ norms = << >>
    /\ results = << >>
    /\ band_indices = << >>
    /\ energy_ranges = << >>

----------------------------------------------------------------------------
(* The main thread *)

\* main calls audio::run, which selects the device, builds the stream and plays it.
\* An Err is passed on by `?` and ends main; a failed expect panics.
AudioRun ==
    /\ main_pc = "start"
    /\ \E enumOk \in BOOLEAN, defaultDevice \in DeviceSet \cup {NoDevice} :
         LET o == RunOutcome(desired_device_name, enumOk, defaultDevice)
         IN /\ device' = o.device
            /\ stream' = o.stream
            /\ run_result' = IF o.result = "Ok" THEN "none" ELSE o.result
            /\ main_pc' = CASE o.result = "Ok"    -> "run_return"
                            [] o.result = "panic" -> "panicked"
                            [] OTHER              -> "done"
    /\ UNCHANGED << desired_device_name, cb_pc, data, delivered, chan, cons_pc,
                    samples, lock, decibels, dbs,
                    sample_rate, buffer, locals >>

\* audio::run returns Ok(()): the local `stream` goes out of scope.  The handle is
\* released here; whether the host goes on delivering blocks for a released handle
\* is decided outside this repository, so both outcomes are kept: "stopped" (no
\* further invocation, the closure and its Sender go once the invocation in flight
\* is over) and "detached" (invocations go on).
RunReturn ==
    /\ main_pc = "run_return"
    /\ stream' \in {"stopped", "detached"}
    /\ run_result' = "Ok"
    /\ main_pc' = "spawn"
    /\ UNCHANGED << desired_device_name, device, cb_pc, data, delivered, chan,
                    cons_pc, samples, lock, decibels, dbs,
                    sample_rate, buffer, locals >>

\* tokio::spawn of the consumer task, then run_tui
Spawn ==
    /\ main_pc = "spawn"
    /\ cons_pc' = "recv"
    /\ main_pc' = "draw"
    /\ UNCHANGED << desired_device_name, device, run_result, stream, cb_pc, data,
                    delivered, chan, samples, lock, decibels, dbs,
                    sample_rate, buffer, locals >>

\* mutant of UiSnapshot: the snapshot takes the history out of AppState
UiSnapshotTaking ==
    /\ main_pc = "draw"
    /\ lock = "free"
    /\ lock' = "ui"
    /\ dbs' = Snapshot(decibels)
    /\ decibels' = << >>
    /\ main_pc' = "render"
    /\ UNCHANGED << desired_device_name, device, run_result, stream, cb_pc, data,
                    delivered, chan, cons_pc, samples,
                    sample_rate, buffer, locals >>

\* ui: state.lock(), then the Vec<u64> is collected from the history
UiSnapshot ==
    /\ main_pc = "draw"
    /\ lock = "free"
    /\ lock' = "ui"
    /\ dbs' = Snapshot(decibels)
    /\ main_pc' = "render"
    /\ UNCHANGED << desired_device_name, device, run_result, stream, cb_pc, data,
                    delivered, chan, cons_pc, samples, decibels,
                    sample_rate, buffer, locals >>

\* mutant of UiRender: ui returns with the guard leaked, the lock stays taken
UiRenderHolding ==
    /\ main_pc = "render"
    /\ dbs' = << >>
    /\ main_pc' = "poll"
    /\ UNCHANGED << desired_device_name, device, run_result, stream, cb_pc, data,
                    delivered, chan, cons_pc, samples, lock, decibels,
                    sample_rate, buffer, locals >>

\* ui: the sparkline is rendered and ui returns, which drops the guard and dbs
UiRender ==
    /\ main_pc = "render"
    /\ lock' = "free"
    /\ dbs' = << >>
    /\ main_pc' = "poll"
    /\ UNCHANGED << desired_device_name, device, run_result, stream, cb_pc, data,
                    delivered, chan, cons_pc, samples, decibels,
                    sample_rate, buffer, locals >>

\* run: event::poll; on 'q' the loop breaks, run_tui and main return and the
\* runtime is shut down
PollEvent ==
    /\ main_pc = "poll"
    /\ \E quit \in BOOLEAN : main_pc' = IF quit THEN "done" ELSE "draw"
    /\ UNCHANGED << desired_device_name, device, run_result, stream, cb_pc, data,
                    delivered, chan, cons_pc, samples, lock, decibels, dbs,
                    sample_rate, buffer, locals >>

----------------------------------------------------------------------------
(* The audio thread *)

\* the host invokes the input stream callback with a block
Deliver(blocks, limit) ==
    /\ stream \in {"playing", "detached"}
    /\ cb_pc = "idle"
    /\ Len(delivered) < limit
    /\ \E block \in blocks :
         /\ data' = block
         /\ delivered' = Append(delivered, block)
    /\ cb_pc' = "send"
    /\ UNCHANGED << main_pc, desired_device_name, device, run_result, stream, chan,
                    cons_pc, samples, lock, decibels, dbs,
                    sample_rate, buffer, locals >>

\* tx.blocking_send(data.to_vec()).unwrap(): waits while the channel is full,
\* panics on the Err of a closed channel
CallbackSend ==
    /\ cb_pc = "send"
    /\ IF ReceiverClosed
       THEN /\ cb_pc' = "panicked"
            /\ chan' = chan
       ELSE /\ Len(chan) < ChannelCapacity
            /\ chan' = Append(chan, data)
            /\ cb_pc' = "analyse"
    /\ UNCHANGED << main_pc, desired_device_name, device, run_result, stream, data,
                    delivered, cons_pc, samples, lock, decibels, dbs,
                    sample_rate, buffer, locals >>

\* the block is copied into the buffer the closure captured
CallbackFill ==
    /\ cb_pc = "analyse"
    /\ buffer' = Fill(buffer, data)
    /\ cb_pc' = IF FillPanics(data) THEN "panicked" ELSE "transform"
    /\ UNCHANGED << main_pc, desired_device_name, device, run_result, stream, data,
                    delivered, chan, cons_pc, samples, lock, decibels, dbs,
                    sample_rate, locals >>

\* the rest of the callback: fft.process, the norms, remove_mirroring and the mean
\* of each band.  The norms and the means are locals, gone when the callback
\* returns; the slice of a band may panic.
CallbackAnalyse ==
    /\ cb_pc = "transform"
    /\ buffer' = FftProcess(buffer)
    /\ cb_pc' = IF BandsPanic(sample_rate, FoldedLen) THEN "panicked" ELSE "idle"
    /\ data' = << >>
    /\ UNCHANGED << main_pc, desired_device_name, device, run_result, stream,
                    delivered, chan, cons_pc, samples, lock, decibels, dbs,
                    sample_rate, locals >>

----------------------------------------------------------------------------
(* The consumer task *)

\* rx.recv().await gives Some(samples)
ConsumerRecv ==
    /\ cons_pc = "recv"
    /\ chan /= << >>
    /\ samples' = Head(chan)
    /\ chan' = Tail(chan)
    /\ cons_pc' = "lock"
    /\ UNCHANGED << main_pc, desired_device_name, device, run_result, stream, cb_pc,
                    data, delivered, lock, decibels, dbs,
                    sample_rate, buffer, locals >>

\* rx.recv().await gives None: the channel is empty and its sender is gone
ConsumerEnd ==
    /\ cons_pc = "recv"
    /\ chan = << >>
    /\ ~SenderAlive
    /\ cons_pc' = "ended"
    /\ UNCHANGED << main_pc, desired_device_name, device, run_result, stream, cb_pc,
                    data, delivered, chan, samples, lock, decibels, dbs,
                    sample_rate, buffer, locals >>

\* the runtime is dropped when main returns: the task is dropped at its await
ConsumerCancel ==
    /\ cons_pc = "recv"
    /\ main_pc = "done"
    /\ cons_pc' = "cancelled"
    /\ UNCHANGED << main_pc, desired_device_name, device, run_result, stream, cb_pc,
                    data, delivered, chan, samples, lock, decibels, dbs,
                    sample_rate, buffer, locals >>

\* audio_state.lock().unwrap()
ConsumerLock ==
    /\ cons_pc = "lock"
    /\ lock = "free"
    /\ lock' = "consumer"
    /\ cons_pc' = "push"
    /\ UNCHANGED << main_pc, desired_device_name, device, run_result, stream, cb_pc,
                    data, delivered, chan, samples, decibels, dbs,
                    sample_rate, buffer, locals >>

\* mutant of ConsumerPush: `if let Some(v) = max_volume { push(v) }`, which pushes
\* nothing for a block without samples
ConsumerPushIfSome ==
    /\ cons_pc = "push"
    /\ decibels' = IF samples = << >> THEN decibels
                   ELSE Append(decibels, MaxVolume(samples))
    /\ lock' = "free"
    /\ samples' = << >>
    /\ cons_pc' = "recv"
    /\ UNCHANGED << main_pc, desired_device_name, device, run_result, stream, cb_pc,
                    data, delivered, chan, dbs,
                    sample_rate, buffer, locals >>

\* mutant of ConsumerPush: decibels.insert(0, ..) in place of push
ConsumerPushFront ==
    /\ cons_pc = "push"
    /\ decibels' = << MaxVolume(samples) >> \o decibels
    /\ lock' = "free"
    /\ samples' = << >>
    /\ cons_pc' = "recv"
    /\ UNCHANGED << main_pc, desired_device_name, device, run_result, stream, cb_pc,
                    data, delivered, chan, dbs,
                    sample_rate, buffer, locals >>

\* max_volume is computed and pushed; the guard is dropped at the end of the loop body
ConsumerPush ==
    /\ cons_pc = "push"
    /\ decibels' = Append(decibels, MaxVolume(samples))
    /\ lock' = "free"
    /\ samples' = << >>
    /\ cons_pc' = "recv"
    /\ UNCHANGED << main_pc, desired_device_name, device, run_result, stream, cb_pc,
                    data, delivered, chan, dbs,
                    sample_rate, buffer, locals >>

----------------------------------------------------------------------------

----------------------------------------------------------------------------
(* The analysis of one invocation, step by step, on given norms *)

\* the callback has computed the norms of the transformed buffer
InitBands ==
    /\ main_pc = "run_return"
    /\ desired_device_name = "mic"
    /\ device = Find(InputDevices, "mic")
    /\ run_result = "none"
    /\ stream = "playing"
    /\ cb_pc = "bands"
    /\ data = << 10, 500, 1 >>
    /\ delivered = << data >>
    /\ chan = << data >>
    /\ cons_pc = "unspawned"
    /\ samples = << >>
    /\ lock = "free"
    /\ decibels = << >>
    /\ dbs = << >>
    /\ sample_rate \in SampleRates
    /\ buffer = Buffer(<< >>, Transformed)
    /\ norms \in Norms
    /\ results = << >>
    /\ band_indices = << >>
    /\ energy_ranges = << >>

\* let results = remove_mirroring(&results);
RemoveMirroringStep ==
    /\ cb_pc = "bands"
    /\ results = << >>
    /\ IF RemoveMirroringPanics(norms)
       THEN /\ cb_pc' = "panicked"
            /\ results' = results
       ELSE /\ cb_pc' = cb_pc
            /\ results' = remove_mirroring(norms)
    /\ UNCHANGED << main_pc, desired_device_name, device, run_result, stream, data,
                    delivered, chan, cons_pc, samples, lock, decibels, dbs,
                    sample_rate, buffer, norms, band_indices, energy_ranges >>

\* one element of the map over [BASS, LOW_MID, MID, HIGH_MID, TREBLE]
BandEnergyStep ==
    /\ cb_pc = "bands"
    /\ results /= << >>
    /\ Len(band_indices) < Len(FreqRanges)
    /\ LET ix == BandIndices(FreqRanges[Len(band_indices) + 1], sample_rate,
                             Len(results))
       IN /\ band_indices' = Append(band_indices, ix)
          /\ IF SlicePanics(results, ix)
             THEN /\ cb_pc' = "panicked"
                  /\ energy_ranges' = energy_ranges
             ELSE /\ cb_pc' = cb_pc
                  /\ energy_ranges' = Append(energy_ranges, BandMean(results, ix))
    /\ UNCHANGED << main_pc, desired_device_name, device, run_result, stream, data,
                    delivered, chan, cons_pc, samples, lock, decibels, dbs,
                    sample_rate, buffer, norms, results >>

----------------------------------------------------------------------------
\* the steps once audio::run has played the stream
Playing(blocks, limit) ==
    \/ Deliver(blocks, limit)
    \/ CallbackSend
    \/ CallbackFill
    \/ CallbackAnalyse
    \/ ConsumerRecv
    \/ ConsumerEnd
    \/ ConsumerCancel
    \/ ConsumerLock
    \/ ConsumerPush
    \/ RunReturn
    \/ Spawn
    \/ UiSnapshot
    \/ UiRender
    \/ PollEvent

Steps(blocks, limit) ==
    \/ Playing(blocks, limit)
    \/ AudioRun

Next == Steps(Blocks, MaxBlocks)

NextLoad == Steps(LoadBlocks, MaxLoadBlocks)

Spec == Init /\ [][Next]_vars

SpecLoad == InitLoad /\ [][NextLoad]_vars

NextBands ==
    \/ RemoveMirroringStep
    \/ BandEnergyStep
\* the analysis on every sample rate and every vector of norms of the model
SpecBands == InitBands /\ [][NextBands]_vars

\* the threads keep running; the consumer is assumed to get the lock when it is
\* free again and again
Fairness ==
    /\ WF_vars(RunReturn)
    /\ WF_vars(Spawn)
    /\ WF_vars(UiRender)
    /\ WF_vars(CallbackSend)
    /\ WF_vars(ConsumerRecv)
    /\ SF_vars(ConsumerLock)
    /\ WF_vars(ConsumerPush)

FairSpec == Spec /\ Fairness

NextFull == Playing(LoadBlocks, MaxFullBlocks)
\* from a full channel on: the callback waits at its send for the consumer
SpecFull == InitBacklog /\ [][NextFull]_vars

\* as Fairness, and the callback runs on while it can and ui gets the lock when it
\* is free again and again
FairnessFull ==
    /\ Fairness
    /\ WF_vars(CallbackFill)
    /\ WF_vars(CallbackAnalyse)
    /\ SF_vars(UiSnapshot)

FairSpecFull == SpecFull /\ FairnessFull

----------------------------------------------------------------------------
(* Claims *)

\* the blocks that left the callback and are not yet in the history, oldest first
ConsumerHeld == IF cons_pc \in {"lock", "push"} THEN << samples >> ELSE << >>
CallbackHeld == IF cb_pc = "send" THEN << data >> ELSE << >>

\* C1: the number of readings in AppState.decibels never exceeds a fixed capacity
\* K >= 300; stated for the smallest such K, the window the terminal asks for
C1_HistoryWithinCapacity == Len(decibels) <= SnapshotWindow

\* C2: a callback invocation that is at its send completes without waiting for the
\* consumer, also when the channel holds 100 blocks
C2_SendNeverWaits == (cb_pc = "send") => ENABLED CallbackSend

\* the process has not been shut down: main has not returned
Running == main_pc /= "done"

\* C3 (count): while the process runs, every delivered block is in the history, in
\* the consumer's hands, in the channel or at the callback's send, exactly once
NothingLost ==
    Running =>
        Len(delivered) = Len(decibels) + Len(ConsumerHeld) + Len(chan) + Len(CallbackHeld)

\* C3: no block is lost in the hand-off, and under fair scheduling the reading of
\* the n-th delivered block is eventually appended, unless the process is shut down
\* first
C3_NoLoss ==
    /\ []NothingLost
    /\ \A n \in 1..MaxBlocks :
         (Len(delivered) >= n) ~> (Len(decibels) >= n \/ ~Running)

\* C3 witness: the pipeline has drained with every delivered block in the history
C3_Witness ==
    /\ Running
    /\ Len(delivered) = MaxBlocks
    /\ Len(decibels) = MaxBlocks
    /\ chan = << >>

\* C4: the readings in the history are those of the delivered blocks in delivery
\* order, and the blocks on their way are the next delivered ones in that order
C4_FifoOrder ==
    LET done == Len(decibels)
        queued == ConsumerHeld \o chan
    IN /\ done + Len(queued) <= Len(delivered)
       /\ \A i \in 1..done : decibels[i] = MaxVolume(delivered[i])
       /\ \A i \in 1..Len(queued) : queued[i] = delivered[done + i]

\* C4 witness: three blocks of different loudness went through, one after the other
C4_Witness ==
    /\ Len(decibels) = 3
    /\ decibels[1] /= decibels[2]
    /\ decibels[2] /= decibels[3]
    /\ decibels[1] /= decibels[3]

\* C5: the sequence ui builds holds the min(300, len) most recent readings (as ui
\* converts them) oldest first, the most recent one last
C5_SnapshotChronological ==
    main_pc = "render" =>
        LET len == Len(decibels)
            n == IF len < SnapshotWindow THEN len ELSE SnapshotWindow
        IN dbs = [i \in 1..n |-> AbsAsU64(decibels[len - n + i])]

\* the names the enumeration yields
EnumeratedNames ==
    {InputDevices[i].name : i \in {j \in 1..Len(InputDevices) : InputDevices[j].name_ok}}

\* audio::run is over: it returned or it panicked
RunOver == main_pc \notin {"start", "run_return"}

\* C6: asking for a name that is not the default indicator and that no enumerated
\* device has makes audio::run return DeviceNotFound (or the enumeration's own
\* error when the enumeration failed): no device is selected, no stream is started
\* and the call does not abort
C6_DeviceNotFoundReturned ==
    (RunOver /\ desired_device_name \notin EnumeratedNames \cup {"default"}) =>
        /\ run_result \in {"DeviceNotFound", "CpalDevicesError"}
        /\ main_pc /= "panicked"
        /\ device = NoDevice
        /\ stream = "none"

\* C7: every setup failure of audio::run reaches the caller as an error value: no
\* failure path ends in a panic
C7_SetupFailuresReturned ==
    /\ main_pc /= "panicked"
    /\ run_result /= "panic"

\* the selected device reports a default input config whose format is not f32
NonF32Device == device /= NoDevice /\ device.config \notin {"F32", "none"}

\* C8 as stated: a device whose format is not f32 makes audio::run return
\* UnsupportedSampleFormat, with no stream, no callback, nothing sent and an empty
\* history
C8_UnsupportedFormatReturned ==
    NonF32Device =>
        /\ run_result = "UnsupportedSampleFormat"
        /\ stream = "none"
        /\ delivered = << >>
        /\ chan = << >>
        /\ decibels = << >>

\* C8 as amended: the same, except that a device whose name cannot be read makes
\* audio::run return CpalDeviceNameError instead; in both cases before any stream
\* is built
C8_UnsupportedFormatBeforeStream ==
    NonF32Device =>
        /\ run_result = IF device.name_ok THEN "UnsupportedSampleFormat"
                        ELSE "CpalDeviceNameError"
        /\ main_pc = "done"
        /\ stream = "none"
        /\ cb_pc = "idle"
        /\ delivered = << >>
        /\ chan = << >>
        /\ decibels = << >>

\* C8 witness: audio::run returned UnsupportedSampleFormat for the i16 device
C8_Witness ==
    /\ NonF32Device
    /\ device.name_ok
    /\ run_result = "UnsupportedSampleFormat"
    /\ main_pc = "done"

\* a block of zeros only
AllZero(block) == block /= << >> /\ \A i \in 1..Len(block) : block[i] = 0

\* C9: the reading appended for an all-zero block is exactly -100.0 dB
C9_SilenceIsFloor ==
    \A i \in 1..Len(decibels) : AllZero(delivered[i]) => decibels[i] = Fin(-10000)

\* 20*log10(v) with every non-finite value replaced by -100.0
FlooredDb(sample) ==
    LET value == TwentyLog10(sample)
    IN IF IsFinite(value) THEN value ELSE Fin(-10000)

\* the greatest of the floored per-sample values of a non-empty block
PeakDb(block) ==
    CHOOSE x \in {FlooredDb(block[i]) : i \in 1..Len(block)} :
        \A j \in 1..Len(block) : FlooredDb(block[j])[2] <= x[2]

\* C10: the reading of a non-empty block is the maximum of its floored per-sample
\* values, so every reading of a non-empty block is finite
C10_PeakOfFlooredValues ==
    \A i \in 1..Len(decibels) :
        delivered[i] /= << >> =>
            /\ decibels[i] = PeakDb(delivered[i])
            /\ IsFinite(decibels[i])

BandWidth(ix) == ix.high_index - ix.low_index

\* the indices of band k at another sample rate, for the results at hand
IndicesAt(k, rate) == BandIndices(FreqRanges[k], rate, Len(results))

\* C12: for each band, a higher sample rate does not decrease
\* high_index - low_index
C12_WidthNotDecreasing ==
    \A k \in 1..Len(band_indices) : \A rate \in SampleRates :
        rate > sample_rate => BandWidth(IndicesAt(k, rate)) >= BandWidth(band_indices[k])

\* C12, amended: for each band, a higher sample rate increases neither low_index nor
\* high_index, and increases high_index - low_index by one bin at most
C12_IndicesNotIncreasing ==
    \A k \in 1..Len(band_indices) : \A rate \in SampleRates :
        rate > sample_rate =>
            /\ IndicesAt(k, rate).low_index <= band_indices[k].low_index
            /\ IndicesAt(k, rate).high_index <= band_indices[k].high_index
            /\ BandWidth(IndicesAt(k, rate)) <= BandWidth(band_indices[k]) + 1

\* a band of the FoldedLen results has been mapped at a rate below which another of
\* the rates gives it one bin less
C12_Witness ==
    /\ Len(results) = FoldedLen
    /\ \E k \in 1..Len(band_indices) : \E rate \in SampleRates :
          /\ rate > sample_rate
          /\ BandWidth(IndicesAt(k, rate)) = BandWidth(band_indices[k]) + 1

\* C13: for every sample rate and band both indices are indices of the folded
\* results, and the slice of the band does not panic
C13_IndicesInRange ==
    Len(norms) = FftLen =>
        /\ cb_pc /= "panicked"
        /\ \A k \in 1..Len(band_indices) :
              /\ band_indices[k].low_index \in 0..(FoldedLen - 1)
              /\ band_indices[k].high_index \in 0..(FoldedLen - 1)

\* C14: for every sample rate and band low_index <= high_index; a slice that was
\* taken has at least one element, so its mean is a finite quotient, and the mean
\* of a band with low_index = high_index is the magnitude of that bin
C14_BandRangeNonEmpty ==
    /\ \A k \in 1..Len(band_indices) :
          band_indices[k].low_index <= band_indices[k].high_index
    /\ \A k \in 1..Len(energy_ranges) :
          /\ Len(FreqSlice(results, band_indices[k])) >= 1
          /\ IsFinite(energy_ranges[k])
          /\ band_indices[k].low_index = band_indices[k].high_index =>
                energy_ranges[k] = Fin(results[band_indices[k].low_index + 1])

\* the mean of a one-bin band of the FoldedLen results has been taken
C14_Witness ==
    /\ Len(results) = FoldedLen
    /\ \E k \in 1..Len(energy_ranges) :
          band_indices[k].low_index = band_indices[k].high_index

\* C15: when the transform is applied the block has fitted into the buffer, entry
\* i of the buffer is sample i of the current block with a zero imaginary part for
\* every i below the block's length, and no other entry holds anything but the
\* zero the buffer was allocated with
C15_BufferHoldsCurrentBlock ==
    cb_pc = "transform" =>
        /\ Len(data) <= FftLen
        /\ \A i \in 0..(FftLen - 1) :
              BufferAt(buffer, i) = IF i < Len(data) THEN Complex(data[i + 1], 0)
                                                     ELSE Complex(0, 0)

\* C16: the consumer does not hold the lock while the loudness of its block is
\* still to be computed, and ui does not hold it while the widget is still to be
\* rendered
C16_LockOnlyForAppendOrCopy ==
    /\ cons_pc = "push" => lock /= "consumer"
    /\ main_pc = "render" => lock /= "ui"

\* C17: a step that changes AppState.decibels is a step of the consumer task alone,
\* and it adds exactly one element at the end, the earlier elements staying as they
\* were; so a snapshot and a callback invocation leave the history unchanged
C17_OnlyConsumerAppends ==
    [][decibels' /= decibels =>
          /\ cons_pc = "push" /\ cons_pc' = "recv"
          /\ main_pc' = main_pc /\ dbs' = dbs
          /\ cb_pc' = cb_pc /\ data' = data /\ buffer' = buffer
          /\ Len(decibels') = Len(decibels) + 1
          /\ \A i \in 1..Len(decibels) : decibels'[i] = decibels[i]]_vars

\* a snapshot of a history of two readings is held while a callback invocation is
\* under way
C17_Witness ==
    /\ Len(decibels) >= 2
    /\ main_pc = "render"
    /\ Len(dbs) = Len(decibels)
    /\ cb_pc = "transform"

\* C18: once audio::run has returned Ok the stream handle is still held and the
\* stream is playing
C18_StreamKeptAlive == run_result = "Ok" => stream = "playing"

\* C19: an invocation at its send does not panic, whatever has become of the
\* Receiver
C19_SendNeverPanics == [][cb_pc = "send" => cb_pc' /= "panicked"]_vars

\* main has returned or panicked: the process is shutting down
Shutdown == main_pc \in {"done", "panicked"}

\* a step of the main thread, of a callback invocation or of the consumer task
ThreadStep ==
    \/ AudioRun \/ RunReturn \/ Spawn \/ UiSnapshot \/ UiRender \/ PollEvent
    \/ CallbackSend \/ CallbackFill \/ CallbackAnalyse
    \/ ConsumerRecv \/ ConsumerLock \/ ConsumerPush

\* the callback waits at its send for room in the channel
ProducerBlocked == cb_pc = "send" /\ ~ENABLED CallbackSend

\* C20: before shutdown some thread can take a step; and with the threads scheduled
\* fairly no wait lasts for ever: a callback waiting on a full channel gets room to
\* send, a consumer waiting for the lock gets it and a ui waiting for the lock
\* gets it
C20_NoDeadlock ==
    /\ [](~Shutdown => ENABLED ThreadStep)
    /\ []<>(~(ProducerBlocked /\ ~Shutdown))
    /\ []<>(cons_pc /= "lock")
    /\ []<>(main_pc /= "draw")

\* the callback waits on a full channel while the consumer waits for the lock that
\* ui holds
C20_Witness ==
    /\ ProducerBlocked
    /\ Len(chan) = ChannelCapacity
    /\ cons_pc = "lock"
    /\ lock = "ui"
    /\ ~Shutdown

====
